---- MODULE Spec2Model ----
(***************************************************************************)
(* Model of the WBAM training ledger (src/app.py).                         *)
(*                                                                         *)
(* The program is a Streamlit script: every user event runs the script     *)
(* from the top (load_ledger at line 96), then the handler of the widget   *)
(* that fired.  A handler that changes the ledger saves it and calls       *)
(* st.rerun(), which runs the script again and reloads the ledger from the *)
(* file.  One action below is one such event, reload included.             *)
(*                                                                         *)
(* Representation                                                          *)
(*   text            sequence of one-character strings                     *)
(*   None            <<>>;  a present value x is <<x>>                     *)
(*   uuid4 strings   fresh naturals (nextId)                               *)
(*   ISO timestamps  readings of a clock; successive readings increase     *)
(*   score numbers   [t, v, s]: t the Python type, v the value in          *)
(*                   hundredths, s the characters when t = "str"           *)
(*   JSON text       [kind, members]: the top-level layout, members        *)
(*                   holding the lexical form of every leaf                *)
(***************************************************************************)
EXTENDS Integers, Sequences, FiniteSets, TLC

VARIABLES ledger,     \* the module-level variable `ledger`
          file,       \* contents of LEDGER_FILE, None when it does not exist
          clock,      \* next reading of datetime.utcnow()
          nextId,     \* next value of uuid.uuid4()
          download,   \* the file the user got from the download button
          uploaded,   \* the file the user last put in the uploader
          atLoad,     \* value of `ledger` at line 96 of the run of the last event
          last,       \* the last event: [op, ok, sid, arg]
          tasksIn,    \* argument of next_objective_from_tasks
          objective,  \* its result
          scoreIn,    \* argument of pct
          percent     \* its result

vars == <<ledger, file, clock, nextId, download, uploaded, atLoad, last,
          tasksIn, objective, scoreIn, percent>>

ledgerVars == <<ledger, file, clock, nextId, download, uploaded, atLoad, last>>
fnVars == <<tasksIn, objective, scoreIn, percent>>

----------------------------------------------------------------------------
(* Bounds *)

MaxClock == 8
MaxSessions == 2
MaxTasks == 2
MaxScores == 2
MaxNotes == 2
MaxTaskList == 3
MaxScoreIn == 1020

----------------------------------------------------------------------------
(* Python values *)

None == <<>>

Some(x) == <<x>>

PyInt(n) == [t |-> "int", v |-> n * 100, s |-> <<>>]

PyFloat(h) == [t |-> "float", v |-> h, s |-> <<>>]

PyStr(chars) == [t |-> "str", v |-> 0, s |-> chars]

PyNone == [t |-> "none", v |-> 0, s |-> <<>>]

Space == " "

RECURSIVE lstrip(_)
lstrip(s) == IF s # <<>> /\ Head(s) = Space THEN lstrip(Tail(s)) ELSE s

RECURSIVE rstrip(_)
rstrip(s) ==
    IF s # <<>> /\ s[Len(s)] = Space THEN rstrip(SubSeq(s, 1, Len(s) - 1)) ELSE s

strip(s) == rstrip(lstrip(s))

startswith(s, p) == Len(s) >= Len(p) /\ SubSeq(s, 1, Len(p)) = p

Digits == <<"0", "1", "2", "3", "4", "5", "6", "7", "8", "9">>

IsDigit(c) == \E d \in 1..10 : Digits[d] = c

DigitVal(c) == (CHOOSE d \in 1..10 : Digits[d] = c) - 1

RECURSIVE DigitsVal(_)
DigitsVal(s) ==
    IF s = <<>> THEN 0 ELSE DigitsVal(SubSeq(s, 1, Len(s) - 1)) * 10 + DigitVal(s[Len(s)])

AllDigits(s) == s # <<>> /\ \A i \in 1..Len(s) : IsDigit(s[i])

\* float(x): [ok, v]; ok = FALSE is ValueError / TypeError.  Of the strings
\* float() accepts, decimal integers with an optional sign are modelled.
float(x) ==
    IF x.t \in {"int", "float"} THEN [ok |-> TRUE, v |-> x.v]
    ELSE IF x.t = "str"
         THEN LET b == strip(x.s) IN
              IF AllDigits(b) THEN [ok |-> TRUE, v |-> DigitsVal(b) * 100]
              ELSE IF b # <<>> /\ Head(b) = "-" /\ AllDigits(Tail(b))
                   THEN [ok |-> TRUE, v |-> 0 - DigitsVal(Tail(b)) * 100]
                   ELSE [ok |-> FALSE, v |-> 0]
         ELSE [ok |-> FALSE, v |-> 0]

\* clamp without the max(lo, ...)
clampNoFloor(x, lo, hi) ==
    LET f == float(x) IN
    IF ~f.ok THEN PyInt(lo)
    ELSE IF f.v < hi * 100 THEN PyFloat(f.v) ELSE PyInt(hi)

\* min(hi, x) keeps hi unless x < hi; max(lo, m) keeps lo unless m > lo
clamp(x, lo, hi) ==
    LET f == float(x) IN
    IF ~f.ok THEN PyInt(lo)
    ELSE LET m == IF f.v < hi * 100 THEN PyFloat(f.v) ELSE PyInt(hi)
         IN  IF m.v > lo * 100 THEN m ELSE PyInt(lo)

ClampLo == 0
ClampHi == 10

\* Scores (in hundredths) whose double-precision product (x / 10) * 100
\* falls just below the exact integer, so that int() yields one less.
FloatShort == {70, 140, 280, 290, 330, 560, 580, 660, 870, 910}

pct(score) ==
    LET c == clamp(score, ClampLo, ClampHi).v IN
    (c \div 10) - (IF c \in FloatShort THEN 1 ELSE 0)

----------------------------------------------------------------------------
(* json.dumps / json.loads *)

QUOTE == "\""
BSL == "\\"

\* an encoder that escapes the quote only
EscapeCharQuoteOnly(c) == IF c = QUOTE THEN <<BSL, QUOTE>> ELSE <<c>>

\* ensure_ascii=False: only the quote and the backslash (and control
\* characters, not modelled) are escaped; everything else is written as is
EscapeChar(c) ==
    IF c = QUOTE THEN <<BSL, QUOTE>> ELSE IF c = BSL THEN <<BSL, BSL>> ELSE <<c>>

RECURSIVE EscapeSeq(_)
EscapeSeq(s) == IF s = <<>> THEN <<>> ELSE EscapeChar(Head(s)) \o EscapeSeq(Tail(s))

EncodeString(s) == <<QUOTE>> \o EscapeSeq(s) \o <<QUOTE>>

RECURSIVE UnescapeSeq(_)
UnescapeSeq(b) ==
    IF b = <<>> THEN <<>>
    ELSE IF Head(b) = BSL /\ Len(b) >= 2
         THEN <<b[2]>> \o UnescapeSeq(SubSeq(b, 3, Len(b)))
         ELSE <<Head(b)>> \o UnescapeSeq(Tail(b))

DecodeString(b) == UnescapeSeq(SubSeq(b, 2, Len(b) - 1))

LexText(chars) == [lex |-> "string", body |-> EncodeString(chars), n |-> 0, frac |-> FALSE]

\* uuid and ISO strings hold no character that is escaped
LexToken(n) == [lex |-> "string", body |-> <<>>, n |-> n, frac |-> FALSE]

LexInt(n) == [lex |-> "number", body |-> <<>>, n |-> n, frac |-> FALSE]

\* repr of a float always shows a fraction ("5.0"), of an int never ("5")
LexNumber(x) == [lex |-> "number", body |-> <<>>, n |-> x.v, frac |-> (x.t = "float")]

LexNull == [lex |-> "null", body |-> <<>>, n |-> 0, frac |-> FALSE]

LexOptToken(o) == IF o = None THEN LexNull ELSE LexToken(o[1])

LoadText(l) == DecodeString(l.body)

LoadToken(l) == l.n

LoadInt(l) == l.n

LoadNumber(l) == IF l.frac THEN PyFloat(l.n) ELSE [t |-> "int", v |-> l.n, s |-> <<>>]

LoadOptToken(l) == IF l.lex = "null" THEN None ELSE Some(l.n)

ScoreFields == <<"python", "sql", "bi", "banking", "analytical", "business", "portfolio">>

ScoreFieldSet == {ScoreFields[i] : i \in 1..7}

DumpMeta(m) ==
    [app |-> LexText(m.app), version |-> LexText(m.version),
     created_at |-> LexToken(m.created_at)]

LoadMeta(m) ==
    [app |-> LoadText(m.app), version |-> LoadText(m.version),
     created_at |-> LoadToken(m.created_at)]

DumpSession(x) ==
    [session_id |-> LexToken(x.session_id), started_at |-> LexToken(x.started_at),
     topic |-> LexText(x.topic), module |-> LexText(x.module), level |-> LexInt(x.level)]

LoadSession(x) ==
    [session_id |-> LoadToken(x.session_id), started_at |-> LoadToken(x.started_at),
     topic |-> LoadText(x.topic), module |-> LoadText(x.module), level |-> LoadInt(x.level)]

DumpTask(x) ==
    [task_id |-> LexToken(x.task_id), session_id |-> LexToken(x.session_id),
     title |-> LexText(x.title), status |-> LexText(<<x.status>>),
     difficulty |-> LexInt(x.difficulty), created_at |-> LexToken(x.created_at),
     completed_at |-> LexOptToken(x.completed_at)]

LoadTask(x) ==
    [task_id |-> LoadToken(x.task_id), session_id |-> LoadToken(x.session_id),
     title |-> LoadText(x.title), status |-> LoadText(x.status)[1],
     difficulty |-> LoadInt(x.difficulty), created_at |-> LoadToken(x.created_at),
     completed_at |-> LoadOptToken(x.completed_at)]

DumpScore(x) ==
    [k \in DOMAIN x |-> IF k \in ScoreFieldSet THEN LexNumber(x[k]) ELSE LexToken(x[k])]

LoadScore(x) ==
    [k \in DOMAIN x |-> IF k \in ScoreFieldSet THEN LoadNumber(x[k]) ELSE LoadToken(x[k])]

DumpNote(x) ==
    [note_id |-> LexToken(x.note_id), session_id |-> LexToken(x.session_id),
     created_at |-> LexToken(x.created_at), action_answer |-> LexText(x.action_answer),
     technical_notes |-> LexText(x.technical_notes)]

LoadNote(x) ==
    [note_id |-> LoadToken(x.note_id), session_id |-> LoadToken(x.session_id),
     created_at |-> LoadToken(x.created_at), action_answer |-> LoadText(x.action_answer),
     technical_notes |-> LoadText(x.technical_notes)]

DumpList(xs, k) ==
    [i \in 1..Len(xs) |->
        CASE k = "sessions" -> DumpSession(xs[i])
          [] k = "tasks" -> DumpTask(xs[i])
          [] k = "scores" -> DumpScore(xs[i])
          [] OTHER -> DumpNote(xs[i])]

LoadList(xs, k) ==
    [i \in 1..Len(xs) |->
        CASE k = "sessions" -> LoadSession(xs[i])
          [] k = "tasks" -> LoadTask(xs[i])
          [] k = "scores" -> LoadScore(xs[i])
          [] OTHER -> LoadNote(xs[i])]

\* json.dumps(ledger, ensure_ascii=False, indent=2)
json_dumps(doc) ==
    [kind |-> "object",
     members |-> [k \in DOMAIN doc |->
                    IF k = "meta" THEN DumpMeta(doc[k]) ELSE DumpList(doc[k], k)]]

\* json.loads of a text whose top level is an object
json_loads(text) ==
    [k \in DOMAIN text.members |->
        IF k = "meta" THEN LoadMeta(text.members[k]) ELSE LoadList(text.members[k], k)]

----------------------------------------------------------------------------
(* Ledger store *)

APP == <<"WBAM Training App">>
VERSION == <<"1", ".", "0">>

now_iso(t) == t

new_id(n) == n

\* an empty ledger that does not read the clock
empty_ledger_stale(t) ==
    [meta |-> [app |-> APP, version |-> VERSION, created_at |-> 0],
     sessions |-> <<>>, tasks |-> <<>>, scores |-> <<>>, notes |-> <<>>]

empty_ledger(t) ==
    [meta |-> [app |-> APP, version |-> VERSION, created_at |-> now_iso(t)],
     sessions |-> <<>>, tasks |-> <<>>, scores |-> <<>>, notes |-> <<>>]

\* f is the file (None when absent), t the clock reading if one is taken
load_ledger(f, t) == IF f # None THEN json_loads(f[1]) ELSE empty_ledger(t)

\* the new contents of the file
save_ledger(doc) == Some(json_dumps(doc))

\* st.rerun(): the script starts over and line 96 reloads the saved file
rerun(f) == load_ledger(f, 0)

SessionIds(doc) == {doc.sessions[i].session_id : i \in 1..Len(doc.sessions)}

Continue == <<"Continue: ">>
Start == <<"Start: ">>
NoPending == <<"No pending tasks. Create the next technical task.">>

IsDoing(t) == t.status = "doing"
IsTodo(t) == t.status = "todo"

\* the priority turned round: todo before doing
next_objective_todo_first(tasks) ==
    LET doing == SelectSeq(tasks, IsDoing)
        todo == SelectSeq(tasks, IsTodo)
    IN  IF todo # <<>> THEN Start \o todo[1].title
        ELSE IF doing # <<>> THEN Continue \o doing[1].title
        ELSE NoPending

next_objective_from_tasks(tasks) ==
    LET doing == SelectSeq(tasks, IsDoing)
        todo == SelectSeq(tasks, IsTodo)
    IN  IF doing # <<>> THEN Continue \o doing[1].title
        ELSE IF todo # <<>> THEN Start \o todo[1].title
        ELSE NoPending

\* an upsert that overwrites the session's latest note instead of appending
upsert_replacing(doc, nid, session_id, t, action_answer, technical_notes) ==
    LET row == [note_id |-> new_id(nid), session_id |-> session_id, created_at |-> now_iso(t),
                action_answer |-> action_answer, technical_notes |-> technical_notes]
        own == {i \in 1..Len(doc.notes) : doc.notes[i].session_id = session_id}
    IN  IF own = {} THEN [doc EXCEPT !.notes = Append(@, row)]
        ELSE [doc EXCEPT !.notes[CHOOSE i \in own : \A j \in own : j <= i] = row]

upsert_latest_note(doc, nid, session_id, t, action_answer, technical_notes) ==
    [doc EXCEPT !.notes = Append(@,
        [note_id |-> new_id(nid), session_id |-> session_id, created_at |-> now_iso(t),
         action_answer |-> action_answer, technical_notes |-> technical_notes])]

----------------------------------------------------------------------------
(* User inputs *)

Statuses == {"todo", "doing", "done"}

Week1Prefix == <<"Week 1: ", "Data Grain Discipline">>
\* the one character of the program's texts that is not ASCII
EMDASH == "U+2014"

Week1Title == Week1Prefix \o <<" ", EMDASH, " write correct merge/aggregation procedure">>

SessionInputs ==
    {[topic |-> <<" ", "a">>, module |-> <<"M", "0">>, level |-> 1],
     [topic |-> <<QUOTE, BSL, BSL, "n">>, module |-> <<"M", "0", " ">>, level |-> 3]}

TaskInputs ==
    {[title |-> <<" ">>, difficulty |-> 1, status |-> "todo"],
     [title |-> <<"a", " ">>, difficulty |-> 2, status |-> "done"],
     [title |-> <<"Week 1: ", "b">>, difficulty |-> 1, status |-> "todo"],
     [title |-> Week1Prefix \o <<"x">>, difficulty |-> 3, status |-> "doing"]}

ScoreRaws ==
    <<PyInt(0 - 5), PyStr(<<"a", "b", "c">>), PyInt(15), PyFloat(570), PyNone,
      PyStr(<<"1", "5">>), PyFloat(1000)>>

\* the seven entered values: the raw values above, rotated by r
ScoreInput(r) == [i \in 1..7 |-> ScoreRaws[((i + r) % 7) + 1]]

Rotations == {0, 3}

NoteInputs == {[action_answer |-> <<EMDASH, QUOTE>>, technical_notes |-> <<>>]}

Garbage == [kind |-> "garbage", members |-> <<>>]
ArrayText == [kind |-> "array", members |-> <<>>]

required == {"sessions", "tasks", "scores", "notes", "meta"}

DropKey(T, k) ==
    [kind |-> T.kind, members |-> [j \in (DOMAIN T.members) \ {k} |-> T.members[j]]]

\* the first task edited to status done with completed_at null
UncompletedDone(T) ==
    IF T.members.tasks = <<>> THEN T
    ELSE [T EXCEPT !.members.tasks[1].status = LexText(<<"done">>),
                   !.members.tasks[1].completed_at = LexNull]

\* the first task edited to name a session that is not in the file
Orphaned(T) ==
    IF T.members.tasks = <<>> THEN T
    ELSE [T EXCEPT !.members.tasks[1].session_id = LexToken(0)]

\* what the user may put in the uploader: the downloaded file, as it is or edited
Uploads ==
    {Garbage, ArrayText} \cup
    (IF download = None THEN {}
     ELSE LET T == download[1].text IN
          {T, UncompletedDone(T), Orphaned(T)} \cup {DropKey(T, k) : k \in required})

----------------------------------------------------------------------------
(* The script: one action per widget event *)

Event(op, ok, sid, arg) == [op |-> op, ok |-> ok, sid |-> sid, arg |-> arg]

Init ==
    /\ ledger = empty_ledger(0)
    /\ atLoad = empty_ledger(0)
    /\ file = None
    /\ clock = 1
    /\ nextId = 1
    /\ download = None
    /\ uploaded = None
    /\ last = Event("start", TRUE, 0, <<>>)
    /\ tasksIn = <<>>
    /\ objective = None
    /\ scoreIn = PyNone
    /\ percent = 0 - 1

\* a handler that saved doc and called st.rerun()
Saved(L, doc, ticks, ids, ev) ==
    /\ file' = save_ledger(doc)
    /\ ledger' = rerun(save_ledger(doc))
    /\ atLoad' = L
    /\ clock' = clock + ticks
    /\ nextId' = nextId + ids
    /\ last' = ev

\* a run that left the ledger and the file alone
Untouched(L, ev) ==
    /\ file' = file
    /\ ledger' = L
    /\ atLoad' = L
    /\ clock' = clock + 1
    /\ nextId' = nextId
    /\ last' = ev

CreateSession(in) ==
    LET L == load_ledger(file, clock)
        sid == new_id(nextId)
        doc == [L EXCEPT !.sessions = Append(@,
                   [session_id |-> sid, started_at |-> now_iso(clock + 1),
                    topic |-> strip(in.topic), module |-> strip(in.module),
                    level |-> in.level])]
    IN  /\ clock < MaxClock
        /\ Len(L.sessions) < MaxSessions
        /\ Saved(L, doc, 2, 1, Event("createSession", TRUE, sid, <<>>))
        /\ UNCHANGED <<download, uploaded>>

AddTask(session_id, in) ==
    LET L == load_ledger(file, clock)
        doc == [L EXCEPT !.tasks = Append(@,
                   [task_id |-> new_id(nextId), session_id |-> session_id,
                    title |-> strip(in.title), status |-> in.status,
                    difficulty |-> in.difficulty, created_at |-> now_iso(clock + 1),
                    completed_at |-> IF in.status = "done" THEN Some(now_iso(clock + 2))
                                     ELSE None])]
    IN  /\ clock < MaxClock
        /\ session_id \in SessionIds(L)
        /\ Len(L.tasks) < MaxTasks
        /\ IF strip(in.title) = <<>>
           THEN Untouched(L, Event("addTask", FALSE, session_id, <<>>))
           ELSE Saved(L, doc, 3, 1, Event("addTask", TRUE, session_id, <<>>))
        /\ UNCHANGED <<download, uploaded>>

\* the for loop of the handler: the first task with the id, then break
SetStatus(tasks, task_id, new_status, t) ==
    LET hit == {j \in 1..Len(tasks) : tasks[j].task_id = task_id} IN
    IF hit = {} THEN tasks
    ELSE LET first == CHOOSE j \in hit : \A k \in hit : j <= k IN
         [tasks EXCEPT ![first].status = new_status,
                       ![first].completed_at =
                           IF new_status = "done" THEN Some(now_iso(t)) ELSE None]

ApplyStatus(session_id, tidx, new_status) ==
    LET L == load_ledger(file, clock)
        doc == [L EXCEPT !.tasks = SetStatus(@, L.tasks[tidx].task_id, new_status, clock + 1)]
    IN  /\ clock < MaxClock
        /\ session_id \in SessionIds(L)
        /\ tidx \in 1..Len(L.tasks)
        /\ L.tasks[tidx].session_id = session_id
        /\ Saved(L, doc, 2, 0, Event("updateTaskStatus", TRUE, session_id, <<tidx>>))
        /\ UNCHANGED <<download, uploaded>>

SaveSnapshot(session_id, entered) ==
    LET L == load_ledger(file, clock)
        row == [k \in {"score_id", "session_id", "created_at"} \cup ScoreFieldSet |->
                  CASE k = "score_id" -> new_id(nextId)
                    [] k = "session_id" -> session_id
                    [] k = "created_at" -> now_iso(clock + 1)
                    [] OTHER -> clamp(entered[CHOOSE i \in 1..7 : ScoreFields[i] = k],
                                      ClampLo, ClampHi)]
        doc == [L EXCEPT !.scores = Append(@, row)]
    IN  /\ clock < MaxClock
        /\ session_id \in SessionIds(L)
        /\ Len(L.scores) < MaxScores
        /\ Saved(L, doc, 2, 1, Event("addScoreSnapshot", TRUE, session_id, entered))
        /\ UNCHANGED <<download, uploaded>>

\* a check for the exact title of the automatic task
HasWeek1TaskExact(doc, session_id) ==
    \E i \in 1..Len(doc.tasks) :
        /\ doc.tasks[i].session_id = session_id
        /\ doc.tasks[i].title = Week1Title

HasWeek1Task(doc, session_id) ==
    \E i \in 1..Len(doc.tasks) :
        /\ doc.tasks[i].session_id = session_id
        /\ startswith(doc.tasks[i].title, Week1Prefix)

SaveWeek1Notes(session_id, in) ==
    LET L == load_ledger(file, clock)
        noted == upsert_latest_note(L, nextId, session_id, clock + 1,
                                    in.action_answer, in.technical_notes)
        doc == IF ~HasWeek1Task(noted, session_id)
               THEN [noted EXCEPT !.tasks = Append(@,
                        [task_id |-> new_id(nextId + 1), session_id |-> session_id,
                         title |-> Week1Title, status |-> "doing", difficulty |-> 1,
                         created_at |-> now_iso(clock + 2), completed_at |-> None])]
               ELSE noted
    IN  /\ clock < MaxClock
        /\ session_id \in SessionIds(L)
        /\ Len(L.notes) < MaxNotes
        /\ Saved(L, doc, 3, 2, Event("addNote", TRUE, session_id, <<>>))
        /\ UNCHANGED <<download, uploaded>>

\* the download button hands out export_str of this run
Export ==
    LET L == load_ledger(file, clock) IN
    /\ clock < MaxClock
    /\ Untouched(L, Event("export", TRUE, 0, <<>>))
    /\ download' = Some([doc |-> L, text |-> json_dumps(L)])
    /\ UNCHANGED uploaded

\* a schema check that forgets meta
HasRequiredKeysNoMeta(incoming) == (required \ {"meta"}) \subseteq DOMAIN incoming

HasRequiredKeys(incoming) == required \subseteq DOMAIN incoming

\* json.loads raises on garbage, and a top level that is not an object has
\* no keys(): both end in the except branch
\* The uploader is taken to hold the file for the run of the upload only
\* (the user removes it afterwards), so that later events do not import again.
Import(up) ==
    LET L == load_ledger(file, clock) IN
    /\ clock < MaxClock
    /\ uploaded' = Some(up)
    /\ IF up.kind # "object"
       THEN Untouched(L, Event("import", FALSE, 0, <<>>))
       ELSE LET incoming == json_loads(up) IN
            IF ~HasRequiredKeys(incoming)
            THEN Untouched(L, Event("import", FALSE, 0, <<>>))
            ELSE Saved(L, incoming, 1, 0, Event("import", TRUE, 0, <<>>))
    /\ UNCHANGED download

Reset ==
    LET L == load_ledger(file, clock) IN
    /\ clock < MaxClock
    /\ Saved(L, empty_ledger(clock + 1), 2, 0, Event("reset", TRUE, 0, <<>>))
    /\ UNCHANGED <<download, uploaded>>

Next ==
    \/ \E in \in SessionInputs : CreateSession(in) /\ UNCHANGED fnVars
    \/ \E sid \in 1..nextId, in \in TaskInputs : AddTask(sid, in) /\ UNCHANGED fnVars
    \/ \E sid \in 1..nextId, tidx \in 1..(MaxTasks + 1), st \in Statuses :
          ApplyStatus(sid, tidx, st) /\ UNCHANGED fnVars
    \/ \E sid \in 1..nextId, r \in Rotations : SaveSnapshot(sid, ScoreInput(r)) /\ UNCHANGED fnVars
    \/ \E sid \in 1..nextId, in \in NoteInputs : SaveWeek1Notes(sid, in) /\ UNCHANGED fnVars
    \/ Export /\ UNCHANGED fnVars
    \/ \E up \in Uploads : Import(up) /\ UNCHANGED fnVars
    \/ Reset /\ UNCHANGED fnVars

Spec == Init /\ [][Next]_vars

----------------------------------------------------------------------------
(* The pure helpers, applied to inputs drawn from bounded sets *)

TaskIn == [status : Statuses, title : {<<"A">>, <<"B">>}]

TaskLists == UNION {[1..n -> TaskIn] : n \in 0..MaxTaskList}

InitObj ==
    /\ ledger = empty_ledger(0)
    /\ atLoad = empty_ledger(0)
    /\ file = None
    /\ clock = 1
    /\ nextId = 1
    /\ download = None
    /\ uploaded = None
    /\ last = Event("start", TRUE, 0, <<>>)
    /\ tasksIn \in TaskLists
    /\ objective = None
    /\ scoreIn = PyNone
    /\ percent = 0 - 1

Objective ==
    /\ objective = None
    /\ objective' = Some(next_objective_from_tasks(tasksIn))
    /\ UNCHANGED <<ledgerVars, tasksIn, scoreIn, percent>>

NextObj == Objective

SpecObj == InitObj /\ [][NextObj]_vars

ScoreIns ==
    {PyFloat(h) : h \in (0 - 20)..MaxScoreIn} \cup {PyInt(n) : n \in (0 - 1)..11}
    \cup {PyNone, PyStr(<<"a", "b", "c">>), PyStr(<<"1", "5">>), PyStr(<<" ", "7">>)}

InitPct ==
    /\ ledger = empty_ledger(0)
    /\ atLoad = empty_ledger(0)
    /\ file = None
    /\ clock = 1
    /\ nextId = 1
    /\ download = None
    /\ uploaded = None
    /\ last = Event("start", TRUE, 0, <<>>)
    /\ tasksIn = <<>>
    /\ objective = None
    /\ scoreIn \in ScoreIns
    /\ percent = 0 - 1

Percent ==
    /\ percent = 0 - 1
    /\ percent' = pct(scoreIn)
    /\ UNCHANGED <<ledgerVars, tasksIn, objective, scoreIn>>

NextPct == Percent

SpecPct == InitPct /\ [][NextPct]_vars

----------------------------------------------------------------------------
(* Properties *)

\* the step is the run of an event of the kind op
Step(op) == clock' # clock /\ last'.op = op

IsPrefix(a, b) == Len(a) <= Len(b) /\ SubSeq(b, 1, Len(a)) = a

\* C1: in every reachable state every task has completed_at non-null
\* exactly when its status is done
TaskStatusInvariant ==
    \A i \in 1..Len(ledger.tasks) :
        (ledger.tasks[i].completed_at # None) <=> (ledger.tasks[i].status = "done")

\* C2: in every reachable state every task, score snapshot and note names
\* the session_id of a session of the ledger
ReferentialIntegrity ==
    /\ \A i \in 1..Len(ledger.tasks) : ledger.tasks[i].session_id \in SessionIds(ledger)
    /\ \A i \in 1..Len(ledger.scores) : ledger.scores[i].session_id \in SessionIds(ledger)
    /\ \A i \in 1..Len(ledger.notes) : ledger.notes[i].session_id \in SessionIds(ledger)

HoldsAllKeys(text) == text.kind = "object" /\ required \subseteq DOMAIN text.members

\* C3: an import of a document lacking one of the five top-level keys is
\* rejected and leaves the in-memory ledger and the file as they were; a
\* document holding all five replaces the ledger and is persisted
ImportRejectsIncomplete ==
    [][Step("import") =>
         IF HoldsAllKeys(uploaded'[1])
         THEN /\ last'.ok
              /\ ledger' = json_loads(uploaded'[1])
              /\ file' # None /\ json_loads(file'[1]) = ledger'
         ELSE /\ ~last'.ok
              /\ ledger' = atLoad'
              /\ file' = file]_vars

ImportRejectedWitness ==
    /\ last.op = "import" /\ ~last.ok
    /\ uploaded # None /\ uploaded[1].kind = "object"
    /\ Cardinality(required \ DOMAIN uploaded[1].members) = 1
    /\ ledger.sessions # <<>>

\* tasks b against tasks a: the same but for status and completed_at of one task
OneStatusChanged(a, b) ==
    /\ Len(b) = Len(a)
    /\ \E j \in 1..Len(a) :
          /\ \A i \in 1..Len(a) : i # j => b[i] = a[i]
          /\ [b[j] EXCEPT !.status = a[j].status, !.completed_at = a[j].completed_at] = a[j]

AppendOnly(pre, post, op) ==
    /\ IsPrefix(pre.sessions, post.sessions)
    /\ IsPrefix(pre.scores, post.scores)
    /\ IsPrefix(pre.notes, post.notes)
    /\ IF op = "updateTaskStatus" THEN OneStatusChanged(pre.tasks, post.tasks)
       ELSE IsPrefix(pre.tasks, post.tasks)

\* C4 (as stated): every operation other than reset leaves each collection a
\* prefix of what it is afterwards, the tasks but for the status and
\* completed_at of the task Apply Status names
AppendOnlyExceptReset ==
    [][clock' # clock /\ last'.op # "reset" => AppendOnly(atLoad', ledger', last'.op)]_vars

\* C4 (amended): every operation other than reset and a successful import
\* leaves each collection a prefix of what it is afterwards, the tasks but for
\* the status and completed_at of the task Apply Status names
AppendOnlyExceptResetAndImport ==
    [][clock' # clock /\ last'.op # "reset" /\ ~(last'.op = "import" /\ last'.ok)
         => AppendOnly(atLoad', ledger', last'.op)]_vars

AppendOnlyWitness ==
    /\ last.op = "updateTaskStatus"
    /\ ledger.tasks # atLoad.tasks
    /\ ledger.sessions = atLoad.sessions /\ ledger.sessions # <<>>

IsNumber(x) == x.t \in {"int", "float"}

NonNumeric(x) ==
    \/ x.t = "none"
    \/ x.t = "str" /\ \A i \in 1..Len(x.s) : ~IsDigit(x.s[i])

\* C5: Save snapshot stores each of the seven fields within [0,10]: a number
\* below 0 as 0, above 10 as 10, one within [0,10] unchanged, a non-numeric
\* value as 0; the earlier rows stay as they were
ClampStored ==
    [][Step("addScoreSnapshot") =>
         /\ Len(ledger'.scores) = Len(atLoad'.scores) + 1
         /\ IsPrefix(atLoad'.scores, ledger'.scores)
         /\ \A i \in 1..7 :
               LET x == last'.arg[i]
                   y == ledger'.scores[Len(ledger'.scores)][ScoreFields[i]]
               IN  /\ IsNumber(y) /\ 0 <= y.v /\ y.v <= 1000
                   /\ IsNumber(x) /\ x.v < 0 => y.v = 0
                   /\ IsNumber(x) /\ x.v > 1000 => y.v = 1000
                   /\ IsNumber(x) /\ 0 <= x.v /\ x.v <= 1000 => y.v = x.v
                   /\ NonNumeric(x) => y.v = 0]_vars

ClampWitness ==
    /\ last.op = "addScoreSnapshot"
    /\ Len(ledger.scores) = 2
    /\ \E i \in 1..7 : IsNumber(last.arg[i]) /\ last.arg[i].v < 0
    /\ \E i \in 1..7 : IsNumber(last.arg[i]) /\ last.arg[i].v > 1000
    /\ \E i \in 1..7 : NonNumeric(last.arg[i])
    /\ \E i \in 1..7 : ledger.scores[2][ScoreFields[i]].v = 570

\* C6: importing the export of a document d leaves the in-memory ledger and
\* the persisted ledger equal to d
RoundTrip ==
    [][Step("import") /\ download # None /\ uploaded' = Some(download[1].text) =>
         /\ last'.ok
         /\ ledger' = download[1].doc
         /\ file' # None /\ json_loads(file'[1]) = download[1].doc]_vars

RoundTripWitness ==
    /\ last.op = "import" /\ last.ok
    /\ download # None /\ uploaded = Some(download[1].text)
    /\ ledger # atLoad
    /\ \E i \in 1..Len(ledger.sessions) : \E j \in 1..Len(ledger.sessions[i].topic) :
          ledger.sessions[i].topic[j] = BSL

FirstWith(tasks, st) ==
    CHOOSE i \in 1..Len(tasks) :
        tasks[i].status = st /\ \A j \in 1..(i - 1) : tasks[j].status # st

\* C7: the objective is Continue: with the title of the first doing task if
\* there is one, whatever todo tasks come before it; else Start: with the
\* title of the first todo task if there is one; else the sentinel
ObjectivePriority ==
    objective # None =>
        IF \E i \in 1..Len(tasksIn) : tasksIn[i].status = "doing"
        THEN objective[1] = <<"Continue: ">> \o tasksIn[FirstWith(tasksIn, "doing")].title
        ELSE IF \E i \in 1..Len(tasksIn) : tasksIn[i].status = "todo"
             THEN objective[1] = <<"Start: ">> \o tasksIn[FirstWith(tasksIn, "todo")].title
             ELSE objective[1] = <<"No pending tasks. Create the next technical task.">>

ObjectiveWitness ==
    /\ objective # None
    /\ Len(tasksIn) = 3
    /\ tasksIn[1].status = "todo" /\ tasksIn[1].title = <<"A">>
    /\ tasksIn[2].status = "doing" /\ tasksIn[2].title = <<"B">>
    /\ tasksIn[3].status = "doing" /\ tasksIn[3].title = <<"A">>

\* C8: after a reset the four collections are empty, the file holds that
\* empty document, and meta.created_at is not what it was before the reset
ResetEmpties ==
    [][Step("reset") =>
         /\ ledger'.sessions = <<>> /\ ledger'.tasks = <<>>
         /\ ledger'.scores = <<>> /\ ledger'.notes = <<>>
         /\ file' # None /\ json_loads(file'[1]) = ledger'
         /\ ledger'.meta.created_at # atLoad'.meta.created_at]_vars

ResetWitness ==
    /\ last.op = "reset"
    /\ atLoad.sessions # <<>> /\ atLoad.tasks # <<>>
    /\ ledger.sessions = <<>>

Week1Tasks(doc, sid) ==
    {i \in 1..Len(doc.tasks) :
        doc.tasks[i].session_id = sid /\ startswith(doc.tasks[i].title, Week1Prefix)}

\* C9: Save Week 1 Notes appends exactly one note of the session; it appends
\* one task (prefixed title, doing, difficulty 1, completed_at null) when the
\* session has no task with the prefix, and leaves the tasks alone otherwise
NoteEnsuresTask ==
    [][Step("addNote") =>
         LET pre == atLoad'
             post == ledger'
             sid == last'.sid
         IN  /\ Len(post.notes) = Len(pre.notes) + 1
             /\ IsPrefix(pre.notes, post.notes)
             /\ post.notes[Len(post.notes)].session_id = sid
             /\ IF Week1Tasks(pre, sid) # {}
                THEN post.tasks = pre.tasks
                ELSE /\ Len(post.tasks) = Len(pre.tasks) + 1
                     /\ IsPrefix(pre.tasks, post.tasks)
                     /\ LET t == post.tasks[Len(post.tasks)] IN
                           /\ t.session_id = sid
                           /\ startswith(t.title, Week1Prefix)
                           /\ t.status = "doing"
                           /\ t.difficulty = 1
                           /\ t.completed_at = None]_vars

NoteWitness ==
    /\ last.op = "addNote"
    /\ Len(ledger.notes) = 2
    /\ ledger.notes[1].session_id = last.sid
    /\ ledger.notes[2].session_id = last.sid
    /\ Cardinality(Week1Tasks(ledger, last.sid)) = 1
    /\ ledger.tasks = atLoad.tasks

\* clamp(score, 0, 10) / 10 * 100 for a score in hundredths, rounded to the
\* nearest integer (a half to the even one)
Rounded(h) ==
    LET c == IF h < 0 THEN 0 ELSE IF h > 1000 THEN 1000 ELSE h
        q == c \div 10
        r == c % 10
    IN  IF r > 5 \/ (r = 5 /\ q % 2 = 1) THEN q + 1 ELSE q

\* C10: pct(score) is round(clamp(score, 0, 10) / 10 * 100), an integer in
\* [0,100]
PctIsRounded ==
    percent # 0 - 1 /\ IsNumber(scoreIn) =>
        percent = Rounded(scoreIn.v) /\ percent \in 0..100

====
